---- MODULE Spec2Model ----
(***************************************************************************)
(* Model of the whynot-errors crate: the AppError value of src/src/lib.rs  *)
(* and of src/src/app_error.rs, the SetupError value of                    *)
(* src/src/setup_error.rs, their constructors, their Display renderings,   *)
(* the conversion to a transport response and the json/html shortcuts.     *)
(*                                                                         *)
(* A Rust String is a sequence of one-character strings.  A StatusCode is  *)
(* the name of its associated constant; as_u16 maps it to its number.      *)
(* A displayable input is a tagged value: a string slice, an owned String  *)
(* or an unsigned integer; to_string renders it.                           *)
(***************************************************************************)
EXTENDS Integers, Sequences, FiniteSets, TLC

\* ------------------------------------------------------------------ bounds
\* number of AppError values alive at once
MaxErrs == 2
\* longest string input
MaxLen == 1

\* ------------------------------------------------------------ input domains
Alphabet == {"a", ";"}

RECURSIVE StrsUpTo(_)
StrsUpTo(n) ==
    IF n = 0 THEN {<<>>}
    ELSE LET shorter == StrsUpTo(n - 1)
         IN  shorter \cup {Append(s, ch) : s \in shorter, ch \in Alphabet}

Strs == StrsUpTo(MaxLen)

Ints == {7, 42}

Values ==
    {[kind |-> "str", chars |-> s, n |-> 0] : s \in Strs}
        \cup {[kind |-> "String", chars |-> s, n |-> 0] : s \in Strs}
        \cup {[kind |-> "uint", chars |-> <<>>, n |-> k] : k \in Ints}

\* the status codes handed to the two-argument constructor and the factories
InputCodes == {"OK", "METHOD_NOT_ALLOWED", "INTERNAL_SERVER_ERROR"}

Slots == 1 .. MaxErrs

\* ------------------------------------------------------- library conversions
\* StatusCode::as_u16
as_u16(code) ==
    CASE code = "OK" -> 200
      [] code = "BAD_REQUEST" -> 400
      [] code = "NOT_FOUND" -> 404
      [] code = "METHOD_NOT_ALLOWED" -> 405
      [] code = "INTERNAL_SERVER_ERROR" -> 500

DigitChar(d) ==
    CASE d = 0 -> "0" [] d = 1 -> "1" [] d = 2 -> "2" [] d = 3 -> "3"
      [] d = 4 -> "4" [] d = 5 -> "5" [] d = 6 -> "6" [] d = 7 -> "7"
      [] d = 8 -> "8" [] d = 9 -> "9"

\* Display of an unsigned integer: its decimal digits, most significant first
RECURSIVE uint_fmt(_)
uint_fmt(n) ==
    IF n < 10 THEN <<DigitChar(n)>>
    ELSE uint_fmt(n \div 10) \o <<DigitChar(n % 10)>>

\* ToString::to_string of a displayable input
to_string(v) ==
    CASE v.kind = "str" -> v.chars
      [] v.kind = "String" -> v.chars
      [] v.kind = "uint" -> uint_fmt(v.n)

\* ------------------------------------------------------------------ lib.rs
\* a format string without the space after the colon
lib_fmt_no_space(self) ==
    <<"C", "o", "d", "e", ":">> \o uint_fmt(as_u16(self.code))
        \o <<";", " ">> \o self.message \o <<";">>

\* write!(f, "Code: {}; {};", self.code.as_u16(), self.message)
lib_fmt(self) ==
    <<"C", "o", "d", "e", ":", " ">> \o uint_fmt(as_u16(self.code))
        \o <<";", " ">> \o self.message \o <<";">>

\* a constructor that drops the given code for the default one
lib_new_default_code(code, message) ==
    [ver |-> "lib", code |-> "INTERNAL_SERVER_ERROR", message |-> to_string(message)]

lib_new(code, message) ==
    [ver |-> "lib", code |-> code, message |-> to_string(message)]

lib_not_found ==
    [ver |-> "lib", code |-> "NOT_FOUND",
     message |-> <<"N", "o", "t", " ", "F", "o", "u", "n", "d">>]

lib_server_error(message) ==
    [ver |-> "lib", code |-> "INTERNAL_SERVER_ERROR", message |-> to_string(message)]

\* bad_request copied from server_error with the code left as it was
lib_bad_request_as_500(message) ==
    [ver |-> "lib", code |-> "INTERNAL_SERVER_ERROR", message |-> to_string(message)]

lib_bad_request(message) ==
    [ver |-> "lib", code |-> "BAD_REQUEST", message |-> to_string(message)]

\* a catch-all constructor that blames the caller
lib_from_as_400(obj) ==
    [ver |-> "lib", code |-> "BAD_REQUEST", message |-> to_string(obj)]

lib_from(obj) ==
    [ver |-> "lib", code |-> "INTERNAL_SERVER_ERROR", message |-> to_string(obj)]

\* the closure returned by AppError::fact: it captures code
lib_fact(code) == [ver |-> "lib", code |-> code]

\* a closure body that ignores the captured code
lib_fact_call_ignores_code(closure, obj) ==
    [ver |-> "lib", code |-> "INTERNAL_SERVER_ERROR", message |-> to_string(obj)]

\* the body of that closure, applied to obj
lib_fact_call(closure, obj) ==
    [ver |-> "lib", code |-> closure.code, message |-> to_string(obj)]

\* String::into_response of the web framework: status 200, the text as body
string_into_response(s) ==
    [status |-> "OK", body |-> s, content_type |-> "text/plain; charset=utf-8"]

\* (StatusCode, String)::into_response: the body's response with the status set
tuple_into_response(code, s) ==
    [string_into_response(s) EXCEPT !.status = code]

\* a response whose body is the display text instead of the message
lib_into_response_display_body(self) == tuple_into_response(self.code, lib_fmt(self))

lib_into_response(self) == tuple_into_response(self.code, self.message)

\* a shortcut that wraps the string form of the value
lib_json_ok_stringified(obj) == [tag |-> "Ok", val |-> [json |-> to_string(obj)]]

lib_json_ok(obj) == [tag |-> "Ok", val |-> [json |-> obj]]

\* ------------------------------------------------------------ app_error.rs
app_fmt(self) ==
    <<"C", "o", "d", "e", ":", " ">> \o uint_fmt(as_u16(self.code))
        \o <<";", " ">> \o self.message \o <<";">>

app_new(obj) ==
    [ver |-> "app_error", code |-> "INTERNAL_SERVER_ERROR", message |-> to_string(obj)]

\* a deprecated constructor that drifted from its replacement
app_from_drifted(obj) ==
    [ver |-> "app_error", code |-> "INTERNAL_SERVER_ERROR",
     message |-> <<"E", ":", " ">> \o to_string(obj)]

app_from(obj) ==
    [ver |-> "app_error", code |-> "INTERNAL_SERVER_ERROR", message |-> to_string(obj)]

app_code(code) == [ver |-> "app_error", code |-> code]

app_code_call(closure, obj) ==
    [ver |-> "app_error", code |-> closure.code, message |-> to_string(obj)]

app_into_response(self) == tuple_into_response(self.code, self.message)

app_json_ok(obj) == [tag |-> "Ok", val |-> [json |-> obj]]

html_ok(s) == [tag |-> "Ok", val |-> [html |-> to_string(s)]]

\* ---------------------------------------------------------- setup_error.rs
setup_new(msg) == [msg |-> to_string(msg)]

\* write! in place of writeln!: no line terminator
setup_fmt_no_newline(self) ==
    <<"S", "e", "t", "u", "p", " ", "E", "r", "r", "o", "r", ":", " ">> \o self.msg

\* writeln!(f, "Setup Error: {}", self.msg)
setup_fmt(self) ==
    <<"S", "e", "t", "u", "p", " ", "E", "r", "r", "o", "r", ":", " ">>
        \o self.msg \o <<"\n">>

\* ------------------------------------------------------------ std helpers
\* Result::unwrap: the success value, a panic on the failure case
unwrap(r) == IF r.tag = "Ok" THEN r.val ELSE [panic |-> TRUE]

\* the closure call f(obj) of either factory
call(closure, obj) ==
    IF closure.ver = "lib" THEN lib_fact_call(closure, obj)
    ELSE app_code_call(closure, obj)

\* Result::map_err with the closure f
map_err(r, f) ==
    IF r.tag = "Err" THEN [tag |-> "Err", val |-> call(f, r.val)] ELSE r

\* ------------------------------------------------------------------- state
VARIABLES
    ver,    \* the version of the crate the program is built against
    inp,    \* the inputs of this run: a status code and a displayable value
    errs,   \* the AppError values alive: slot -> AppError or NoErr
    clos,   \* the factory closure held by the caller, or NoClosure
    setup,  \* the SetupError held by the caller, or NoSetup
    last    \* the last call: its name, the slot it used, what it consumed, its result

vars == <<ver, inp, errs, clos, setup, last>>

Nil == [tag |-> "nil"]
NoErr == [ver |-> "none", code |-> "none", message |-> <<>>]
NoClosure == [ver |-> "none", code |-> "none"]
NoSetup == [msg |-> <<"-">>, none |-> TRUE]

Free == {i \in Slots : errs[i] = NoErr}
FirstFree == CHOOSE i \in Free : \A j \in Free : i <= j

Called(op, id, arg, val) == [op |-> op, id |-> id, arg |-> arg, val |-> val]

Inputs == [code : InputCodes, val : Values]

Versions == {"lib", "app_error"}

Init ==
    /\ ver \in Versions
    /\ inp \in Inputs
    /\ errs = [i \in Slots |-> NoErr]
    /\ clos = NoClosure
    /\ setup = NoSetup
    /\ last = Called("init", 0, Nil, Nil)

\* a constructor call: the new value takes the first free slot
Construct(v, op, e) ==
    /\ ver = v
    /\ Free # {}
    /\ errs' = [errs EXCEPT ![FirstFree] = e]
    /\ last' = Called(op, FirstFree, Nil, Nil)
    /\ UNCHANGED <<ver, inp, clos, setup>>

LibNew == Construct("lib", "lib_new", lib_new(inp.code, inp.val))
LibNotFound == Construct("lib", "lib_not_found", lib_not_found)
LibServerError == Construct("lib", "lib_server_error", lib_server_error(inp.val))
LibBadRequest == Construct("lib", "lib_bad_request", lib_bad_request(inp.val))
LibFrom == Construct("lib", "lib_from", lib_from(inp.val))
AppNew == Construct("app_error", "app_new", app_new(inp.val))
AppFrom == Construct("app_error", "app_from", app_from(inp.val))

\* let f = AppError::fact(code)
LibFact ==
    /\ ver = "lib"
    /\ clos' = lib_fact(inp.code)
    /\ last' = Called("lib_fact", 0, Nil, Nil)
    /\ UNCHANGED <<ver, inp, errs, setup>>

\* let f = AppError::code(code)
AppCode ==
    /\ ver = "app_error"
    /\ clos' = app_code(inp.code)
    /\ last' = Called("app_code", 0, Nil, Nil)
    /\ UNCHANGED <<ver, inp, errs, setup>>

\* f(v): the closure is an Fn, the call leaves it usable
Apply ==
    /\ clos # NoClosure
    /\ Free # {}
    /\ errs' = [errs EXCEPT ![FirstFree] = call(clos, inp.val)]
    /\ last' = Called("apply", FirstFree, clos, Nil)
    /\ UNCHANGED <<ver, inp, clos, setup>>

\* r.map_err(f) on r: Result<(), V>; f is moved into map_err
MapErr ==
    /\ clos # NoClosure
    /\ \E r \in {[tag |-> "Ok", val |-> Nil], [tag |-> "Err", val |-> inp.val]} :
          last' = Called("map_err", 0, [r |-> r, f |-> clos], map_err(r, clos))
    /\ clos' = NoClosure
    /\ UNCHANGED <<ver, inp, errs, setup>>

\* a rendering that takes the message out of the value it renders
Display_takes_message(i) ==
    /\ errs[i] # NoErr
    /\ last' = Called("fmt", i, errs[i],
                      IF errs[i].ver = "lib" THEN lib_fmt(errs[i]) ELSE app_fmt(errs[i]))
    /\ errs' = [errs EXCEPT ![i].message = <<>>]
    /\ UNCHANGED <<ver, inp, clos, setup>>

\* err.to_string() through Display: takes &self
Display(i) ==
    /\ errs[i] # NoErr
    /\ last' = Called("fmt", i, errs[i],
                      IF errs[i].ver = "lib" THEN lib_fmt(errs[i]) ELSE app_fmt(errs[i]))
    /\ UNCHANGED <<ver, inp, errs, clos, setup>>

\* err.into_response(): takes self, the value is consumed
IntoResponse(i) ==
    /\ errs[i] # NoErr
    /\ last' = Called("into_response", i, errs[i],
                      IF errs[i].ver = "lib" THEN lib_into_response(errs[i])
                      ELSE app_into_response(errs[i]))
    /\ errs' = [errs EXCEPT ![i] = NoErr]
    /\ UNCHANGED <<ver, inp, clos, setup>>

\* json_ok(v).unwrap()
JsonOk ==
    /\ LET resp == IF ver = "lib" THEN lib_json_ok(inp.val) ELSE app_json_ok(inp.val)
       IN  last' = Called("json_ok", 0, inp.val, [res |-> resp, unwrapped |-> unwrap(resp)])
    /\ UNCHANGED <<ver, inp, errs, clos, setup>>

HtmlOk ==
    /\ ver = "app_error"
    /\ last' = Called("html_ok", 0, inp.val, html_ok(inp.val))
    /\ UNCHANGED <<ver, inp, errs, clos, setup>>

SetupNew ==
    /\ setup' = setup_new(inp.val)
    /\ last' = Called("setup_new", 0, Nil, Nil)
    /\ UNCHANGED <<ver, inp, errs, clos>>

SetupDisplay ==
    /\ setup # NoSetup
    /\ last' = Called("setup_fmt", 0, setup, setup_fmt(setup))
    /\ UNCHANGED <<ver, inp, errs, clos, setup>>

Next ==
    \/ LibNew
    \/ LibNotFound
    \/ LibServerError
    \/ LibBadRequest
    \/ LibFrom
    \/ AppNew
    \/ AppFrom
    \/ LibFact
    \/ AppCode
    \/ Apply
    \/ MapErr
    \/ \E i \in Slots : Display(i)
    \/ \E i \in Slots : IntoResponse(i)
    \/ JsonOk
    \/ HtmlOk
    \/ SetupNew
    \/ SetupDisplay

Spec == Init /\ [][Next]_vars

\* ------------------------------------------------- a caller with new inputs
\* the inputs a longer call sequence draws from
SeqInputs ==
    {i \in Inputs :
        \/ i.code = "METHOD_NOT_ALLOWED" /\ i.val.kind = "str" /\ i.val.chars = <<"a">>
        \/ i.code = "OK" /\ i.val.kind = "uint" /\ i.val.n = 42}

InitSeq == Init /\ inp \in SeqInputs

\* the caller goes on with another status code and value
Redraw ==
    /\ inp' \in SeqInputs \ {inp}
    /\ last' = Called("input", 0, Nil, Nil)
    /\ UNCHANGED <<ver, errs, clos, setup>>

NextSeq == Next \/ Redraw

SpecSeq == InitSeq /\ [][NextSeq]_vars

\* ------------------------------------------------------------- properties
IsDigit(ch) == ch \in {"0", "1", "2", "3", "4", "5", "6", "7", "8", "9"}

DigitVal(ch) ==
    CASE ch = "0" -> 0 [] ch = "1" -> 1 [] ch = "2" -> 2 [] ch = "3" -> 3
      [] ch = "4" -> 4 [] ch = "5" -> 5 [] ch = "6" -> 6 [] ch = "7" -> 7
      [] ch = "8" -> 8 [] ch = "9" -> 9

\* the number a string of decimal digits denotes
RECURSIVE ParseDec(_)
ParseDec(s) ==
    IF s = <<>> THEN 0
    ELSE 10 * ParseDec(SubSeq(s, 1, Len(s) - 1)) + DigitVal(s[Len(s)])

\* s is the decimal numeral of n, without sign or leading zeros
IsDecimalOf(s, n) ==
    /\ Len(s) >= 1
    /\ \A k \in 1 .. Len(s) : IsDigit(s[k])
    /\ Len(s) > 1 => s[1] # "0"
    /\ ParseDec(s) = n

\* s is the string form of the displayable value v
IsStringOf(s, v) ==
    IF v.kind = "uint" THEN IsDecimalOf(s, v.n) ELSE s = v.chars

\* the numeric value of each status code the crate names
Numeric(code) ==
    CASE code = "OK" -> 200
      [] code = "BAD_REQUEST" -> 400
      [] code = "NOT_FOUND" -> 404
      [] code = "METHOD_NOT_ALLOWED" -> 405
      [] code = "INTERNAL_SERVER_ERROR" -> 500

\* C1: the display text of an AppError is "Code: ", the decimal number of its
\* status, "; ", its message and ";" and nothing else, in both versions.
C1_DisplayFormat ==
    last.op = "fmt" =>
        LET e == last.arg
            out == last.val
            m == e.message
        IN  /\ Len(out) = Len(m) + 12
            /\ SubSeq(out, 1, 6) = <<"C", "o", "d", "e", ":", " ">>
            /\ IsDecimalOf(SubSeq(out, 7, 9), Numeric(e.code))
            /\ SubSeq(out, 10, 11) = <<";", " ">>
            /\ SubSeq(out, 12, 11 + Len(m)) = m
            /\ out[Len(out)] = ";"

WitC1 ==
    /\ last.op = "fmt"
    /\ last.arg.code = "METHOD_NOT_ALLOWED"
    /\ last.arg.message = <<";">>

\* C2: into_response gives a response whose status is the error's code and
\* whose body is the error's message, untransformed.
C2_ResponseCarriesCodeAndMessage ==
    last.op = "into_response" =>
        /\ last.val.status = last.arg.code
        /\ last.val.body = last.arg.message

WitC2 ==
    /\ last.op = "into_response"
    /\ last.arg.code = "NOT_FOUND"
    /\ last.val.body # <<>>

\* C3: every application of the function a status-code factory returned for c
\* yields code c and the string form of its argument, and leaves the function
\* usable; under map_err a failure Err(v) becomes Err of that error and a
\* success passes through unchanged.
C3_FactoryFixesCode ==
    /\ last.op = "apply" =>
          /\ errs[last.id].code = inp.code
          /\ IsStringOf(errs[last.id].message, inp.val)
          /\ clos = last.arg
          /\ clos.code = inp.code
    /\ last.op = "map_err" =>
          IF last.arg.r.tag = "Err"
          THEN /\ last.val.tag = "Err"
               /\ last.val.val.code = inp.code
               /\ IsStringOf(last.val.val.message, last.arg.r.val)
          ELSE last.val = last.arg.r

WitC3 ==
    /\ last.op = "apply"
    /\ last.id > 1
    /\ errs[1] = errs[last.id]
    /\ errs[1].code = "METHOD_NOT_ALLOWED"
    /\ inp.val.kind = "uint"

\* C4: the catch-all constructors (from of lib.rs, new and from of
\* app_error.rs) yield code 500 and the string form of their argument.
C4_CatchAllIs500 ==
    last.op \in {"lib_from", "app_new", "app_from"} =>
        /\ errs[last.id].code = "INTERNAL_SERVER_ERROR"
        /\ Numeric(errs[last.id].code) = 500
        /\ IsStringOf(errs[last.id].message, inp.val)

WitC4 ==
    /\ last.op = "app_new"
    /\ inp.val.kind = "String"
    /\ errs[last.id].message = <<"a">>

\* C5: new(c, m) of lib.rs yields an AppError with exactly the code c and
\* the string form of m.
C5_NewKeepsCodeAndMessage ==
    last.op = "lib_new" =>
        /\ errs[last.id] # NoErr
        /\ errs[last.id].code = inp.code
        /\ IsStringOf(errs[last.id].message, inp.val)

WitC5 ==
    /\ last.op = "lib_new"
    /\ errs[last.id].code = "OK"
    /\ inp.val.kind = "str"
    /\ errs[last.id].message # <<>>

\* C6: not_found yields 404 and "Not Found"; bad_request(x) yields 400 and x;
\* server_error(x) yields 500 and x.
C6_FixedStatusConstructors ==
    /\ last.op = "lib_not_found" =>
          /\ Numeric(errs[last.id].code) = 404
          /\ errs[last.id].message = <<"N", "o", "t", " ", "F", "o", "u", "n", "d">>
    /\ last.op = "lib_bad_request" =>
          /\ Numeric(errs[last.id].code) = 400
          /\ IsStringOf(errs[last.id].message, inp.val)
    /\ last.op = "lib_server_error" =>
          /\ Numeric(errs[last.id].code) = 500
          /\ IsStringOf(errs[last.id].message, inp.val)

WitC6 ==
    /\ last.op = "lib_bad_request"
    /\ inp.code = "OK"
    /\ errs[last.id].message = <<"a">>

\* C7: json_ok(v) is the success case and unwrapping it gives v back.
C7_JsonOkRoundTrip ==
    last.op = "json_ok" =>
        /\ last.val.res.tag = "Ok"
        /\ last.val.unwrapped = [json |-> last.arg]

WitC7 ==
    /\ last.op = "json_ok"
    /\ last.arg.kind = "uint"
    /\ ver = "lib"

\* C8: SetupError::new(m) holds the string form of m, and its display text
\* is "Setup Error: ", the message and one line terminator.
C8_SetupErrorFormat ==
    /\ last.op = "setup_new" => IsStringOf(setup.msg, inp.val)
    /\ last.op = "setup_fmt" =>
          LET out == last.val
              m == last.arg.msg
          IN  /\ Len(out) = Len(m) + 14
              /\ SubSeq(out, 1, 13)
                    = <<"S", "e", "t", "u", "p", " ", "E", "r", "r", "o", "r", ":", " ">>
              /\ SubSeq(out, 14, 13 + Len(m)) = m
              /\ out[Len(out)] = "\n"
              /\ IsStringOf(m, inp.val)

WitC8 ==
    /\ last.op = "setup_fmt"
    /\ last.arg.msg = <<"4", "2">>

\* C9: an AppError, once constructed, keeps its code and message through
\* every later operation until into_response consumes it.
C9_ImmutableUntilConsumed ==
    [][\A i \in Slots :
          errs[i] # NoErr =>
              \/ errs'[i] = errs[i]
              \/ /\ last'.op = "into_response"
                 /\ last'.id = i
                 /\ last'.arg = errs[i]
                 /\ errs'[i] = NoErr]_vars

WitC9 ==
    /\ last.op = "fmt"
    /\ last.id = 1
    /\ \A i \in 1 .. 2 : errs[i] # NoErr
    /\ errs[1].message # errs[2].message
    /\ errs[1].code # errs[2].code

\* C10: in app_error.rs from and new yield the same code and message, and the
\* factory code of app_error.rs and fact of lib.rs yield the same code and
\* message.
C10_DeprecatedSameAsReplacement ==
    /\ last.op = "app_from" =>
          /\ errs[last.id].code = app_new(inp.val).code
          /\ errs[last.id].message = app_new(inp.val).message
    /\ last.op = "app_new" =>
          /\ errs[last.id].code = app_from(inp.val).code
          /\ errs[last.id].message = app_from(inp.val).message
    /\ last.op = "apply" =>
          LET other == IF ver = "lib" THEN app_code_call(app_code(inp.code), inp.val)
                       ELSE lib_fact_call(lib_fact(inp.code), inp.val)
          IN  /\ errs[last.id].code = other.code
              /\ errs[last.id].message = other.message

WitC10 ==
    /\ last.op = "app_from"
    /\ inp.val.kind = "uint"

====
